---- MODULE Spec2Model ----
(***************************************************************************)
(* Max-flow / min-cut on a capacitated directed graph: the residual graph  *)
(* model (prepare_graph), the Edmonds-Karp, Dinic and push-relabel solvers,*)
(* the min-cut extractor and the flow-path decomposer of network_flow.py,  *)
(* driven as app.py drives them: a base graph G is built edge by edge, and *)
(* each run works on a fresh copy Gcopy with a chosen source and sink.     *)
(***************************************************************************)
EXTENDS Integers, Sequences, FiniteSets, TLC

\* ---------------------------------------------------------------- bounds
\* Spec: every edge list of at most MaxEdges edges over at most MaxNodes nodes
MaxNodes == 3
MaxEdges == 3
MaxCap == 1

\* SpecWide: the same family, one step wider in each bound
WideNodes == MaxNodes + 1
WideEdges == MaxEdges + 1
WideCap == MaxCap + 1

\* SpecDinic: acyclic networks, large enough for two shortest paths that
\* share an edge
DinicNodes == MaxNodes + 2
DinicEdges == MaxEdges + 2
DinicCap == MaxCap + 1

\* float('inf'): absorbs every addition, never the smaller of two values
Inf == 1000000

\* Node identifiers; the last one is an identifier that no edge ever names.
NodeIds == 1..(DinicNodes + 1)
NoNode == 0

Min(a, b) == IF a < b THEN a ELSE b
AddInf(a, b) == IF a = Inf \/ b = Inf THEN Inf ELSE a + b

InSeq(x, sq) == \E k \in 1..Len(sq) : sq[k] = x

\* ------------------------------------------------------- networkx.DiGraph
\* nodes and adj keep insertion order, as the dict-of-dicts of a DiGraph does.
\* capacity and flow hold one entry per edge, as the edge attributes do.
EmptyGraph == [nodes |-> <<>>,
               adj |-> [n \in NodeIds |-> <<>>],
               capacity |-> [p \in {} |-> 0],
               flow |-> [p \in {} |-> 0]]

\* d[key] = value on a dict: a new entry, or a new value for an old one
SetItem(d, key, value) ==
    [x \in (DOMAIN d) \cup {key} |-> IF x = key THEN value ELSE d[x]]

HasNode(g, n) == InSeq(n, g.nodes)
has_edge(g, u, v) == InSeq(v, g.adj[u])

add_node(g, n) == IF HasNode(g, n) THEN g ELSE [g EXCEPT !.nodes = Append(@, n)]

add_edge(g, u, v, c, f) ==
    LET g1 == add_node(add_node(g, u), v)
    IN [g1 EXCEPT !.adj[u] = IF InSeq(v, @) THEN @ ELSE Append(@, v),
                  !.capacity = SetItem(@, <<u, v>>, c),
                  !.flow = SetItem(@, <<u, v>>, f)]

\* G.edges(): every node in node order, its successors in adjacency order
RECURSIVE EdgesFrom(_, _)
EdgesFrom(g, ni) ==
    IF ni > Len(g.nodes) THEN <<>>
    ELSE LET u == g.nodes[ni]
         IN [k \in 1..Len(g.adj[u]) |-> <<u, g.adj[u][k]>>] \o EdgesFrom(g, ni + 1)

G_edges(g) == EdgesFrom(g, 1)

Residual(g, u, v) == g.capacity[<<u, v>>] - g.flow[<<u, v>>]

\* ---------------------------------------------------------- prepare_graph
RECURSIVE PrepareFrom(_, _, _)
PrepareFrom(g, es, k) ==
    IF k > Len(es) THEN g
    ELSE LET u == es[k][1]
             v == es[k][2]
         IN IF ~has_edge(g, v, u)
            THEN PrepareFrom(add_edge(g, v, u, 0, 0), es, k + 1)
            ELSE PrepareFrom(g, es, k + 1)

prepare_graph(g) == PrepareFrom(g, G_edges(g), 1)

\* --------------------------------------------------------- Edmonds-Karp
NoParent == [n \in NodeIds |-> NoNode]

RECURSIVE BfsLoop(_, _, _, _, _)
RECURSIVE BfsScan(_, _, _, _, _, _, _)
BfsScan(g, snk, u, k, q, visited, parent) ==
    IF k > Len(g.adj[u]) THEN BfsLoop(g, snk, q, visited, parent)
    ELSE LET v == g.adj[u][k]
         IN IF v \notin visited /\ Residual(g, u, v) > 0
            THEN IF v = snk
                 THEN [found |-> TRUE, parent |-> [parent EXCEPT ![v] = u]]
                 ELSE BfsScan(g, snk, u, k + 1, Append(q, v), visited \cup {v},
                              [parent EXCEPT ![v] = u])
            ELSE BfsScan(g, snk, u, k + 1, q, visited, parent)

BfsLoop(g, snk, q, visited, parent) ==
    IF q = <<>> THEN [found |-> FALSE, parent |-> parent]
    ELSE BfsScan(g, snk, Head(q), 1, Tail(q), visited, parent)

bfs(g, src, snk) == BfsLoop(g, snk, <<src>>, {src}, NoParent)

\* the walk back from t over parent: the path's edges, source side first
RECURSIVE PathTo(_, _, _)
PathTo(parent, src, v) ==
    IF v = src THEN <<>>
    ELSE Append(PathTo(parent, src, parent[v]), <<parent[v], v>>)

RECURSIVE Bottleneck(_, _, _)
Bottleneck(g, p, k) ==
    IF k > Len(p) THEN Inf
    ELSE Min(Residual(g, p[k][1], p[k][2]), Bottleneck(g, p, k + 1))

ZeroFlows(g) == [g EXCEPT !.flow = [p \in DOMAIN @ |-> 0]]

\* the update without its reverse-edge half
EKApplyForwardOnly(g, u, v, d) == [g EXCEPT !.flow[<<u, v>>] = @ + d]

EKApply(g, u, v, d) ==
    [g EXCEPT !.flow[<<u, v>>] = @ + d, !.flow[<<v, u>>] = @ - d]

RECURSIVE ApplyPath(_, _, _, _)
ApplyPath(g, p, k, d) ==
    IF k > Len(p) THEN g
    ELSE ApplyPath(EKApply(g, p[k][1], p[k][2], d), p, k + 1, d)

\* the augmentation loop run to its end: the max_flow it returns
RECURSIVE EKLoop(_, _, _, _)
EKLoop(g, src, snk, total) ==
    LET r == bfs(g, src, snk)
    IN IF ~r.found THEN total
       ELSE LET p == PathTo(r.parent, src, snk)
                d == Bottleneck(g, p, 1)
            IN EKLoop(ApplyPath(g, p, 1, d), src, snk, total + d)

edmonds_karp_value(g, src, snk) == EKLoop(ZeroFlows(prepare_graph(g)), src, snk, 0)

\* ------------------------------------------------------------------ Dinic
RECURSIVE LevelLoop(_, _, _)
RECURSIVE LevelScan(_, _, _, _, _)
LevelScan(g, u, k, q, lv) ==
    IF k > Len(g.adj[u]) THEN LevelLoop(g, q, lv)
    ELSE LET v == g.adj[u][k]
         IN IF lv[v] < 0 /\ Residual(g, u, v) > 0
            THEN LevelScan(g, u, k + 1, Append(q, v), [lv EXCEPT ![v] = lv[u] + 1])
            ELSE LevelScan(g, u, k + 1, q, lv)

LevelLoop(g, q, lv) ==
    IF q = <<>> THEN lv ELSE LevelScan(g, Head(q), 1, Tail(q), lv)

NoLevel == [n \in NodeIds |-> -1]

bfs_level(g, src) == LevelLoop(g, <<src>>, [NoLevel EXCEPT ![src] = 0])

\* dfs(u, pushed, t, level, it): the amount found, the resume indices it leaves
\* behind, and the edges it updates while the recursion unwinds (the edge
\* nearest the sink first).  it[u] counts the successors of u already taken.
RECURSIVE dfs(_, _, _, _, _, _)
dfs(g, u, pushed, snk, lv, itr) ==
    IF u = snk THEN [flow |-> pushed, it |-> itr, path |-> <<>>]
    ELSE IF ~(itr[u] < Len(g.adj[u])) THEN [flow |-> 0, it |-> itr, path |-> <<>>]
    ELSE LET v == g.adj[u][itr[u] + 1]
             it1 == [itr EXCEPT ![u] = @ + 1]
         IN IF lv[v] = lv[u] + 1 /\ Residual(g, u, v) > 0
            THEN LET r == dfs(g, v, Min(pushed, Residual(g, u, v)), snk, lv, it1)
                 IN IF r.flow > 0
                    THEN [flow |-> r.flow, it |-> r.it,
                          path |-> Append(r.path, <<u, v>>)]
                    ELSE dfs(g, u, pushed, snk, lv, r.it)
            ELSE dfs(g, u, pushed, snk, lv, it1)

DinicApply(g, u, v, d) ==
    [g EXCEPT !.flow[<<u, v>>] = @ + d, !.flow[<<v, u>>] = @ - d]

NoIt == [n \in NodeIds |-> 0]

\* ------------------------------------------------------------ push-relabel
ZeroMap == [n \in NodeIds |-> 0]

Saturate(g, src, v) ==
    LET cap == g.capacity[<<src, v>>]
    IN [g EXCEPT !.flow[<<src, v>>] = cap, !.flow[<<v, src>>] = @ - cap]

RECURSIVE ActiveFrom(_, _, _, _, _)
ActiveFrom(g, src, snk, ex, ni) ==
    IF ni > Len(g.nodes) THEN <<>>
    ELSE LET u == g.nodes[ni]
         IN (IF u # src /\ u # snk /\ ex[u] > 0 THEN <<u>> ELSE <<>>)
            \o ActiveFrom(g, src, snk, ex, ni + 1)

\* the whole excess, whatever the edge can still take
SendAllExcess(g, ex, u, v) == ex[u]

Send(g, ex, u, v) == Min(ex[u], Residual(g, u, v))

PushFlow(g, u, v, d) ==
    [g EXCEPT !.flow[<<u, v>>] = @ + d, !.flow[<<v, u>>] = @ - d]

PushExcess(ex, u, v, d) == [[ex EXCEPT ![u] = @ - d] EXCEPT ![v] = @ + d]

RECURSIVE MinHeight(_, _, _, _)
MinHeight(g, h, u, k) ==
    IF k > Len(g.adj[u]) THEN Inf
    ELSE LET v == g.adj[u][k]
             m == MinHeight(g, h, u, k + 1)
         IN IF Residual(g, u, v) > 0 THEN Min(h[v], m) ELSE m

relabel(g, h, u) ==
    LET min_h == MinHeight(g, h, u, 1)
    IN IF min_h < Inf THEN [h EXCEPT ![u] = min_h + 1] ELSE h

\* active.insert(0, active.pop(i)), i counted from 0
MoveToFront(act, idx) ==
    <<act[idx + 1]>> \o [k \in 1..(Len(act) - 1) |-> IF k <= idx THEN act[k] ELSE act[k + 1]]

\* G.predecessors(t): the tails of the edges into t
RECURSIVE FlowInto(_, _, _)
FlowInto(g, snk, es) ==
    IF es = <<>> THEN 0
    ELSE LET u == Head(es)[1]
             v == Head(es)[2]
             f == g.flow[<<u, v>>]
         IN (IF v = snk /\ f > 0 THEN f ELSE 0) + FlowInto(g, snk, Tail(es))

\* ---------------------------------------------------------------- min-cut
RECURSIVE ReachLoop(_, _, _)
ReachLoop(g, stack, visited) ==
    IF stack = <<>> THEN visited
    ELSE LET u == stack[Len(stack)]
             rest == SubSeq(stack, 1, Len(stack) - 1)
         IN IF u \in visited THEN ReachLoop(g, rest, visited)
            ELSE ReachLoop(g,
                           rest \o SelectSeq(g.adj[u], LAMBDA v : Residual(g, u, v) > 0),
                           visited \cup {u})

\* the list's order follows the iteration order of a set, which the code
\* does not fix: the report is modelled as the set of its triples
min_cut_report(g, src) ==
    LET visited == ReachLoop(g, <<src>>, {})
    IN {<<p[1], p[2], g.capacity[p]>> :
          p \in {e \in DOMAIN g.capacity : /\ e[1] \in visited
                                            /\ e[2] \notin visited
                                            /\ g.capacity[e] > 0}}

\* ---------------------------------------------------- extract_flow_paths
\* st = [flow, paths]: the flows of the working copy and the paths so far
RECURSIVE ExtractScan(_, _, _, _, _, _, _)
ExtractDfs(g, st, snk, u, pth, f) ==
    IF u = snk THEN [st EXCEPT !.paths = Append(@, <<pth, f>>)]
    ELSE ExtractScan(g, st, snk, u, 1, pth, f)

ExtractScan(g, st, snk, u, k, pth, f) ==
    IF k > Len(g.adj[u]) THEN st
    ELSE LET v == g.adj[u][k]
             fl == st.flow[<<u, v>>]
         IN IF fl > 0
            THEN ExtractScan(g,
                             ExtractDfs(g, [st EXCEPT !.flow[<<u, v>>] = @ - fl],
                                        snk, v, Append(pth, v), Min(f, fl)),
                             snk, u, k + 1, pth, f)
            ELSE ExtractScan(g, st, snk, u, k + 1, pth, f)

RECURSIVE ExtractTop(_, _, _, _, _)
ExtractTop(g, st, src, snk, k) ==
    IF k > Len(g.adj[src]) THEN st
    ELSE LET v == g.adj[src][k]
             fl == st.flow[<<src, v>>]
         IN IF fl > 0
            THEN ExtractTop(g,
                            ExtractDfs(g, [st EXCEPT !.flow[<<src, v>>] = @ - fl],
                                       snk, v, <<src, v>>, fl),
                            src, snk, k + 1)
            ELSE ExtractTop(g, st, src, snk, k + 1)

extract_flow_paths(g, src, snk) ==
    LET g1 == prepare_graph(g)
    IN ExtractTop(g1, [flow |-> g1.flow, paths |-> <<>>], src, snk, 1).paths

\* ------------------------------------------------------------------ state
VARIABLES
    G,          \* app.py: the base graph built from the edge list
    Gcopy,      \* app.py: the copy the chosen solver works on
    s, t,       \* the source and sink identifiers given to the solver
    algo,       \* app.py: algo_choice
    pc,         \* where the run stands
    max_flow,   \* the solver's running total, then its return value
    path,       \* Edmonds-Karp: edges of the found path still to update
    path_flow,  \* Edmonds-Karp: bottleneck of the found path
    level,      \* Dinic: BFS levels of the current phase
    it,         \* Dinic: per-node resume index
    pushed,     \* Dinic: amount returned by the last dfs call
    unwind,     \* Dinic: edges the returning dfs calls still update
    height,     \* push-relabel
    excess,     \* push-relabel
    active,     \* push-relabel worklist
    i,          \* push-relabel: index into active
    j,          \* push-relabel: successors of the current node already tried
    old_h,      \* push-relabel
    paths,      \* extract_flow_paths' result
    cut         \* min_cut_report's result

vars == <<G, Gcopy, s, t, algo, pc, max_flow, path, path_flow, level, it,
          pushed, unwind, height, excess, active, i, j, old_h, paths, cut>>

ekVars == <<path, path_flow>>
dinicVars == <<level, it, pushed, unwind>>
prVars == <<height, excess, active, i, j, old_h>>
reportVars == <<paths, cut>>

Init ==
    /\ G = EmptyGraph
    /\ Gcopy = EmptyGraph
    /\ s = NoNode
    /\ t = NoNode
    /\ algo = "none"
    /\ pc = "build"
    /\ max_flow = 0
    /\ path = <<>>
    /\ path_flow = 0
    /\ level = NoLevel
    /\ it = NoIt
    /\ pushed = 0
    /\ unwind = <<>>
    /\ height = ZeroMap
    /\ excess = ZeroMap
    /\ active = <<>>
    /\ i = 0
    /\ j = 0
    /\ old_h = 0
    /\ paths = <<>>
    /\ cut = {}

NumEdges(g) == Len(G_edges(g))

\* app.py, the loop over the rows of the edge list: one row becomes one edge
\* of G.  Node identifiers are issued in order of first appearance, which
\* renames the labels and nothing else.
AddRow(nmax, emax, cmax) ==
    /\ pc = "build"
    /\ NumEdges(G) < emax
    /\ \E u \in 1..Min(Len(G.nodes) + 1, nmax) :
         LET n1 == IF u > Len(G.nodes) THEN u ELSE Len(G.nodes)
         IN \E v \in 1..Min(n1 + 1, nmax) : \E c \in 1..cmax :
              /\ v # u
              /\ ~has_edge(G, u, v)
              /\ G' = add_edge(G, u, v, c, 0)
    /\ UNCHANGED <<Gcopy, s, t, algo, pc, max_flow, ekVars, dinicVars, prVars, reportVars>>

AddEdge == AddRow(MaxNodes, MaxEdges, MaxCap)

AddEdgeWide == AddRow(WideNodes, WideEdges, WideCap)

\* The same loop over an edge list whose every row leads from an earlier node
\* to a later one.
AddEdgeForward ==
    /\ pc = "build"
    /\ NumEdges(G) < DinicEdges
    /\ \E u \in 1..Min(Len(G.nodes) + 1, DinicNodes) :
         LET n1 == IF u > Len(G.nodes) THEN u ELSE Len(G.nodes)
         IN \E v \in (u + 1)..Min(n1 + 1, DinicNodes) : \E c \in 1..DinicCap :
              /\ ~has_edge(G, u, v)
              /\ G' = add_edge(G, u, v, c, 0)
    /\ UNCHANGED <<Gcopy, s, t, algo, pc, max_flow, ekVars, dinicVars, prVars, reportVars>>

\* app.py "Run Simulation": Gcopy = G.copy(), then the chosen solver is called
\* with a source and a sink; either may be an identifier the graph lacks.
Choose(a) ==
    /\ pc = "build"
    /\ Len(G.nodes) > 0
    /\ \E src \in 1..(Len(G.nodes) + 1), snk \in 1..(Len(G.nodes) + 1) :
         /\ s' = src
         /\ t' = snk
    /\ algo' = a
    /\ max_flow' = 0

\* ----------------------------------------------------- edmonds_karp_steps
EKStart ==
    /\ Choose("ek")
    /\ Gcopy' = ZeroFlows(prepare_graph(G))
    /\ pc' = "ek_bfs"
    /\ UNCHANGED <<G, ekVars, dinicVars, prVars, reportVars>>

EKBfs ==
    /\ pc = "ek_bfs"
    /\ IF ~HasNode(Gcopy, s)
       THEN pc' = "error" /\ UNCHANGED <<path, path_flow>>
       ELSE LET r == bfs(Gcopy, s, t)
            IN IF r.found
               THEN LET p == PathTo(r.parent, s, t)
                    IN /\ path' = p
                       /\ path_flow' = Bottleneck(Gcopy, p, 1)
                       /\ pc' = "ek_update"
               ELSE pc' = "solved" /\ UNCHANGED <<path, path_flow>>
    /\ UNCHANGED <<G, Gcopy, s, t, algo, max_flow, dinicVars, prVars, reportVars>>

EKUpdate ==
    /\ pc = "ek_update"
    /\ IF path # <<>>
       THEN /\ Gcopy' = EKApply(Gcopy, path[1][1], path[1][2], path_flow)
            /\ path' = Tail(path)
            /\ UNCHANGED <<max_flow, pc>>
       ELSE /\ max_flow' = max_flow + path_flow
            /\ pc' = "ek_bfs"
            /\ UNCHANGED <<Gcopy, path>>
    /\ UNCHANGED <<G, s, t, algo, path_flow, dinicVars, prVars, reportVars>>

\* ------------------------------------------------------------ dinic_apply
DinicStart ==
    /\ Choose("dinic")
    /\ Gcopy' = prepare_graph(G)
    /\ pc' = "dinic_bfs"
    /\ UNCHANGED <<G, ekVars, dinicVars, prVars, reportVars>>

DinicBfs ==
    /\ pc = "dinic_bfs"
    /\ IF ~HasNode(Gcopy, s)
       THEN pc' = "error" /\ UNCHANGED <<level, it>>
       ELSE LET lv == bfs_level(Gcopy, s)
            IN IF ~HasNode(Gcopy, t)
               THEN pc' = "error" /\ UNCHANGED <<level, it>>
               ELSE /\ level' = lv
                    /\ IF lv[t] < 0
                       THEN pc' = "solved" /\ UNCHANGED it
                       ELSE pc' = "dinic_dfs" /\ it' = NoIt
    /\ UNCHANGED <<G, Gcopy, s, t, algo, max_flow, pushed, unwind, ekVars, prVars, reportVars>>

DinicDfs ==
    /\ pc = "dinic_dfs"
    /\ LET r == dfs(Gcopy, s, Inf, t, level, it)
       IN /\ it' = r.it
          /\ pushed' = r.flow
          /\ unwind' = r.path
          /\ pc' = IF r.flow <= 0 THEN "dinic_bfs" ELSE "dinic_update"
    /\ UNCHANGED <<G, Gcopy, s, t, algo, max_flow, level, ekVars, prVars, reportVars>>

DinicUpdate ==
    /\ pc = "dinic_update"
    /\ IF unwind # <<>>
       THEN /\ Gcopy' = DinicApply(Gcopy, unwind[1][1], unwind[1][2], pushed)
            /\ unwind' = Tail(unwind)
            /\ UNCHANGED <<max_flow, pc>>
       ELSE /\ max_flow' = AddInf(max_flow, pushed)
            /\ pc' = "dinic_dfs"
            /\ UNCHANGED <<Gcopy, unwind>>
    /\ UNCHANGED <<G, s, t, algo, level, it, pushed, ekVars, prVars, reportVars>>

\* ----------------------------------------------------- push_relabel_apply
PRStart ==
    /\ Choose("pr")
    /\ Gcopy' = prepare_graph(G)
    /\ height' = [ZeroMap EXCEPT ![s'] = Len(G.nodes)]
    /\ excess' = ZeroMap
    /\ j' = 0
    /\ pc' = IF HasNode(G, s') THEN "pr_saturate" ELSE "error"
    /\ UNCHANGED <<G, active, i, old_h, ekVars, dinicVars, reportVars>>

PRSaturate ==
    /\ pc = "pr_saturate"
    /\ IF j < Len(Gcopy.adj[s])
       THEN LET v == Gcopy.adj[s][j + 1]
            IN /\ Gcopy' = Saturate(Gcopy, s, v)
               /\ excess' = [excess EXCEPT ![v] = @ + Gcopy.capacity[<<s, v>>]]
               /\ j' = j + 1
               /\ UNCHANGED <<active, i, pc>>
       ELSE /\ active' = ActiveFrom(Gcopy, s, t, excess, 1)
            /\ i' = 0
            /\ pc' = "pr_loop"
            /\ UNCHANGED <<Gcopy, excess, j>>
    /\ UNCHANGED <<G, s, t, algo, max_flow, height, old_h, ekVars, dinicVars, reportVars>>

\* while i < len(active): u = active[i]; old_h = height[u]
PRNode ==
    /\ pc = "pr_loop"
    /\ i < Len(active)
    /\ old_h' = height[active[i + 1]]
    /\ j' = 0
    /\ pc' = IF Len(Gcopy.adj[active[i + 1]]) = 0 THEN "pr_after" ELSE "pr_push"
    /\ UNCHANGED <<G, Gcopy, s, t, algo, max_flow, height, excess, active, i,
                   ekVars, dinicVars, reportVars>>

\* one pass of "for v in G[u]": push(u, v) and what follows it
PRPush ==
    /\ pc = "pr_push"
    /\ LET u == active[i + 1]
           v == Gcopy.adj[u][j + 1]
           send == Send(Gcopy, excess, u, v)
           last == j + 1 >= Len(Gcopy.adj[u])
       IN IF send <= 0
          THEN /\ j' = j + 1
               /\ pc' = IF last THEN "pr_after" ELSE "pr_push"
               /\ UNCHANGED <<Gcopy, excess, active>>
          ELSE /\ Gcopy' = PushFlow(Gcopy, u, v, send)
               /\ excess' = PushExcess(excess, u, v, send)
               /\ active' = IF v # s /\ v # t /\ excess'[v] > 0 /\ ~InSeq(v, active)
                            THEN Append(active, v) ELSE active
               /\ j' = j + 1
               /\ pc' = IF excess'[u] = 0 \/ last THEN "pr_after" ELSE "pr_push"
    /\ UNCHANGED <<G, s, t, algo, max_flow, height, i, old_h, ekVars, dinicVars, reportVars>>

\* after the for loop: relabel, then move to the front or advance
PRAfter ==
    /\ pc = "pr_after"
    /\ LET u == active[i + 1]
           h1 == IF excess[u] > 0 THEN relabel(Gcopy, height, u) ELSE height
       IN /\ height' = h1
          /\ IF h1[u] > old_h
             THEN active' = MoveToFront(active, i) /\ i' = 0
             ELSE active' = active /\ i' = i + 1
    /\ pc' = "pr_loop"
    /\ UNCHANGED <<G, Gcopy, s, t, algo, max_flow, excess, j, old_h, ekVars, dinicVars, reportVars>>

PRReturn ==
    /\ pc = "pr_loop"
    /\ ~(i < Len(active))
    /\ IF HasNode(Gcopy, t)
       THEN /\ max_flow' = FlowInto(Gcopy, t, G_edges(Gcopy))
            /\ pc' = "solved"
       ELSE /\ pc' = "error"
            /\ UNCHANGED max_flow
    /\ UNCHANGED <<G, Gcopy, s, t, algo, prVars, ekVars, dinicVars, reportVars>>

\* ------------------------------------------------- app.py: the two reports
ExtractFlowPaths ==
    /\ pc = "solved"
    /\ paths' = extract_flow_paths(Gcopy, s, t)
    /\ pc' = "extracted"
    /\ UNCHANGED <<G, Gcopy, s, t, algo, max_flow, cut, ekVars, dinicVars, prVars>>

MinCutReport ==
    /\ pc = "extracted"
    /\ cut' = min_cut_report(Gcopy, s)
    /\ pc' = "done"
    /\ UNCHANGED <<G, Gcopy, s, t, algo, max_flow, paths, ekVars, dinicVars, prVars>>

EdmondsKarp == EKStart \/ EKBfs \/ EKUpdate
Dinic == DinicStart \/ DinicBfs \/ DinicDfs \/ DinicUpdate
PushRelabel == PRStart \/ PRSaturate \/ PRNode \/ PRPush \/ PRAfter \/ PRReturn
Reports == ExtractFlowPaths \/ MinCutReport

Next == AddEdge \/ EdmondsKarp \/ Dinic \/ PushRelabel \/ Reports

Spec == Init /\ [][Next]_vars

FairSpec == Init /\ [][Next]_vars /\ WF_vars(Next)

NextWide == AddEdgeWide \/ EdmondsKarp \/ Dinic \/ PushRelabel \/ Reports

SpecWide == Init /\ [][NextWide]_vars

NextDinic == AddEdgeForward \/ Dinic \/ Reports

SpecDinic == Init /\ [][NextDinic]_vars

\* ================================================================ claims
Returned == pc \in {"solved", "extracted", "done"}
Called == pc # "build"
KnownEnds == HasNode(G, s) /\ HasNode(G, t)
RealEdge(u, v) == has_edge(G, u, v)
Flow(u, v) == Gcopy.flow[<<u, v>>]
Cap(u, v) == Gcopy.capacity[<<u, v>>]

RECURSIVE OutFlow(_, _, _)
OutFlow(g, n, k) ==
    IF k > Len(g.adj[n]) THEN 0
    ELSE g.flow[<<n, g.adj[n][k]>>] + OutFlow(g, n, k + 1)

RECURSIVE AmountSum(_)
AmountSum(ps) == IF ps = <<>> THEN 0 ELSE Head(ps)[2] + AmountSum(Tail(ps))

RECURSIVE CutSum(_)
CutSum(c) == IF c = {} THEN 0
             ELSE LET e == CHOOSE x \in c : TRUE IN e[3] + CutSum(c \ {e})

\* C1: for distinct source and sink that are nodes of the graph, the value a
\* solver returns is the value Edmonds-Karp returns on a fresh copy of the same
\* graph, so all three solvers return the identical max-flow value.
C1_SolversAgree ==
    (Returned /\ KnownEnds /\ s # t) => max_flow = edmonds_karp_value(G, s, t)

\* C2: once the solver has returned and the min-cut has been reported, the
\* capacities of the reported cut edges sum to the returned max-flow value.
C2_MinCutEqualsMaxFlow ==
    (pc = "done" /\ KnownEnds /\ s # t) => CutSum(cut) = max_flow

\* C3: when a solver has returned, the flows on the outgoing edges (real and
\* reverse) of every node other than the source and the sink sum to 0.
C3_FlowConservation ==
    (Returned /\ KnownEnds /\ s # t) =>
        \A k \in 1..Len(Gcopy.nodes) :
            LET n == Gcopy.nodes[k]
            IN (n # s /\ n # t) => OutFlow(Gcopy, n, 1) = 0

\* C4: the amounts of the paths extract_flow_paths returns sum to the
\* max-flow value the solver returned.
C4_DecompositionSum ==
    (pc \in {"extracted", "done"} /\ KnownEnds /\ s # t) => AmountSum(paths) = max_flow

\* C5 as stated: after a solver completes, every edge of the input graph with
\* positive capacity has 0 <= flow <= capacity, antiparallel real edges
\* included.
C5_FlowWithinZeroAndCapacity ==
    Returned =>
        \A u \in NodeIds, v \in NodeIds :
            (RealEdge(u, v) /\ Cap(u, v) > 0) => (0 <= Flow(u, v) /\ Flow(u, v) <= Cap(u, v))

\* C5 as amended: after a solver completes, every edge has
\* -capacity(v,u) <= flow(u,v) <= capacity(u,v); so a positive-capacity edge
\* whose opposite edge is not a real edge of the input has 0 <= flow <= capacity.
C5_FlowWithinCapacities ==
    Returned =>
        \A u \in NodeIds, v \in NodeIds :
            has_edge(Gcopy, u, v) =>
                /\ Flow(u, v) <= Cap(u, v)
                /\ 0 - Cap(v, u) <= Flow(u, v)
                /\ (RealEdge(u, v) /\ ~RealEdge(v, u)) => 0 <= Flow(u, v)

\* C5 witness: a solver has returned on an input with both u->v and v->u as
\* real edges, and one of the two carries negative flow.
C5_Witness ==
    /\ Returned
    /\ \E u \in NodeIds, v \in NodeIds :
         RealEdge(u, v) /\ RealEdge(v, u) /\ Cap(u, v) > 0 /\ Flow(u, v) < 0

\* C6: in every state of a run, flow(u,v) = -flow(v,u) for every edge pair:
\* each step that changes one changes the other by the opposite amount.
C6_SkewSymmetry ==
    \A e \in DOMAIN Gcopy.flow :
        /\ <<e[2], e[1]>> \in DOMAIN Gcopy.flow
        /\ Flow(e[1], e[2]) = 0 - Flow(e[2], e[1])

\* C6 witness: Edmonds-Karp stands in the middle of a path update, some edges
\* of the path carrying the new flow and others still waiting.
C6_Witness ==
    /\ pc = "ek_update"
    /\ path # <<>>
    /\ \E e \in DOMAIN Gcopy.flow : Gcopy.flow[e] > 0

\* C7: a call whose source or sink is not a node of the graph never returns a
\* value, and leaves the graph as it was before the call.
C7_UnknownNodeRejected ==
    (Called /\ ~KnownEnds) => (~Returned /\ Gcopy = G)

\* C8: every call whose source and sink are nodes of the graph returns.
C8_Terminates == (Called /\ KnownEnds) ~> Returned

\* C9: every push of the worklist loop goes along an edge with positive
\* residual capacity to a node strictly lower than the pushing node.
C9_PushesGoDownhill ==
    [][(pc = "pr_push" /\ Gcopy' # Gcopy) =>
          LET u == active[i + 1]
              v == Gcopy.adj[u][j + 1]
          IN Residual(Gcopy, u, v) > 0 /\ height[v] < height[u]]_vars

\* C10: from one outer iteration of dinic_apply to the next, the BFS level of
\* the sink strictly increases.
C10_SinkLevelIncreases ==
    [][(pc = "dinic_bfs" /\ pc' = "dinic_dfs" /\ level[t] >= 0) =>
          level'[t] > level[t]]_vars
====
